---- MODULE Spec2Model ----
(***************************************************************************)
(* Tenant provisioning workflow of the user-management service             *)
(* (tenant_management/{validators,models,tenant_utils,views}.py) and the   *)
(* internal credentials endpoint (tenant_management/internal_views.py).    *)
(*                                                                         *)
(* Strings the code inspects or builds character by character (slugs,      *)
(* database names, connection names) are sequences of one-character        *)
(* strings; strings the code only passes around are TLA+ strings.          *)
(* A generated 16-character password is an opaque token, a number; every   *)
(* password secrets.choice generates is taken to be new.                   *)
(***************************************************************************)
EXTENDS Integers, Sequences, FiniteSets, TLC

(***************************************************************************)
(* Bounds of the model.                                                    *)
(***************************************************************************)
MaxRequests  == 2   \* create_tenant requests processed in one behaviour
MaxAdminOps  == 1   \* effective update_status / delete_tenant / on-demand calls

Workers == {"w1", "w2"}   \* request threads of the service process

(***************************************************************************)
(* Character-level string helpers (Python str.strip / str.lower / re).     *)
(***************************************************************************)
UpperAlpha == <<"A","B","C","D","E","F","G","H","I","J","K","L","M",
                "N","O","P","Q","R","S","T","U","V","W","X","Y","Z">>
LowerAlpha == <<"a","b","c","d","e","f","g","h","i","j","k","l","m",
                "n","o","p","q","r","s","t","u","v","w","x","y","z">>
Digits == {"0","1","2","3","4","5","6","7","8","9"}
Whitespace == {" ", "\t", "\n"}

Range(f) == {f[i] : i \in DOMAIN f}

LowerChar(c) ==
    IF \E i \in DOMAIN UpperAlpha : UpperAlpha[i] = c
    THEN LowerAlpha[CHOOSE i \in DOMAIN UpperAlpha : UpperAlpha[i] = c]
    ELSE c

\* str.lower()
lower(s) == [i \in DOMAIN s |-> LowerChar(s[i])]

\* str.strip(): drop leading and trailing whitespace
strip(s) ==
    LET keep == {i \in DOMAIN s : s[i] \notin Whitespace}
    IN  IF keep = {} THEN << >>
        ELSE LET lo == CHOOSE i \in keep : \A j \in keep : i <= j
                 hi == CHOOSE i \in keep : \A j \in keep : j <= i
             IN  SubSeq(s, lo, hi)

(***************************************************************************)
(* validators.py                                                           *)
(***************************************************************************)
RESERVED_TENANT_SLUGS ==
    { <<"p","o","s","t","g","r","e","s">>,
      <<"t","e","m","p","l","a","t","e","0">>,
      <<"t","e","m","p","l","a","t","e","1">>,
      <<"a","d","m","i","n">>,
      <<"d","e","f","a","u","l","t">>,
      <<"p","u","b","l","i","c">>,
      <<"m","a","s","t","e","r">>,
      <<"r","o","o","t">>,
      <<"s","y","s","t","e","m">> }

SlugMinLen == 3
SlugMaxLen == 50

\* re.fullmatch(r'^[a-z0-9-]{3,50}$', slug)
SLUG_REGEX(slug) ==
    /\ Len(slug) >= SlugMinLen
    /\ Len(slug) <= SlugMaxLen
    /\ \A i \in DOMAIN slug : slug[i] \in Range(LowerAlpha) \cup Digits \cup {"-"}

\* A request field: JSON null / absent key, or a string.
None == [isNone |-> TRUE, str |-> << >>]
Str(s) == [isNone |-> FALSE, str |-> s]

\* Result of validate_and_normalize_slug: the slug, or the ValidationError.
Valid(slug) == [ok |-> TRUE, slug |-> slug, error |-> "none"]
ValidationError(msg) == [ok |-> FALSE, slug |-> << >>, error |-> msg]

\* validate_and_normalize_slug that compares with the reserved set before
\* it lowercases
validate_ReservedBeforeLower(raw_slug) ==
    IF raw_slug.isNone THEN ValidationError("required")
    ELSE LET stripped == strip(raw_slug.str)
             slug == lower(stripped)
         IN  IF "_" \in Range(slug) \/ " " \in Range(slug)
                 THEN ValidationError("underscore_or_space")
             ELSE IF stripped \in RESERVED_TENANT_SLUGS
                 THEN ValidationError("reserved")
             ELSE IF ~SLUG_REGEX(slug)
                 THEN ValidationError("regex")
             ELSE Valid(slug)

validate_and_normalize_slug(raw_slug) ==
    IF raw_slug.isNone THEN ValidationError("required")
    ELSE LET slug == lower(strip(raw_slug.str))
         IN  IF "_" \in Range(slug) \/ " " \in Range(slug)
                 THEN ValidationError("underscore_or_space")
             ELSE IF slug \in RESERVED_TENANT_SLUGS
                 THEN ValidationError("reserved")
             ELSE IF ~SLUG_REGEX(slug)
                 THEN ValidationError("regex")
             ELSE Valid(slug)

(***************************************************************************)
(* models.py: the secret codec.  A Fernet token is opaque; what the code   *)
(* relies on is that it carries the plaintext recoverable only under the   *)
(* key it was made with.                                                   *)
(***************************************************************************)
SECRET_KEY == "django-insecure-user-mgmt-service-key"

\* base64.urlsafe_b64encode(hashlib.sha256(SECRET_KEY.encode()).digest())
DeriveKey(secret) == <<"sha256", secret>>

FernetEncrypt(key, plaintext) == [fernet |-> key, sealed |-> plaintext]
FernetDecrypt(key, token) ==
    IF token.fernet = key THEN [ok |-> TRUE, value |-> token.sealed]
    ELSE [ok |-> FALSE, value |-> 0]

\* encrypt_password that stores the raw password in the column
encrypt_password_Plain(raw_password) ==
    [fernet |-> <<"plaintext", "plaintext">>, sealed |-> raw_password]

\* TenantDatabaseInfo.encrypt_password: the value stored in database_password
encrypt_password(raw_password) ==
    FernetEncrypt(DeriveKey(SECRET_KEY), raw_password)

\* decrypt_password that takes SECRET_KEY itself for the key
decrypt_password_RawKey(tenant_info) ==
    FernetDecrypt(<<"raw", SECRET_KEY>>, tenant_info.database_password)

\* TenantDatabaseInfo.decrypt_password
decrypt_password(tenant_info) ==
    FernetDecrypt(DeriveKey(SECRET_KEY), tenant_info.database_password)


(***************************************************************************)
(* settings.py                                                             *)
(***************************************************************************)
DEFAULT_HOST == "localhost"     \* DATABASES['default']['HOST']
DEFAULT_PORT == "5432"          \* DATABASES['default']['PORT']

(***************************************************************************)
(* tenant_utils.py: names and credentials                                  *)
(***************************************************************************)
Suffix_compliance_db == <<"_","c","o","m","p","l","i","a","n","c","e","_","d","b">>
Suffix_user == <<"_","u","s","e","r">>

\* generate_database_credentials that names the database "{slug}_db"
generate_database_credentials_ShortName(tenant_slug, password) ==
    [db_name  |-> tenant_slug \o <<"_","d","b">>,
     db_user  |-> tenant_slug \o Suffix_user,
     password |-> password]

\* generate_database_credentials; `password` is the outcome of secrets.choice
generate_database_credentials(tenant_slug, password) ==
    [db_name  |-> tenant_slug \o Suffix_compliance_db,
     db_user  |-> tenant_slug \o Suffix_user,
     password |-> password]

\* a connection name that leaves the slug out
ConnectionName_NoSlug(tenant_slug) == Suffix_compliance_db

\* connection_name = f"{tenant_slug}_compliance_db"
ConnectionName(tenant_slug) == tenant_slug \o Suffix_compliance_db

(***************************************************************************)
(* Requests the model issues.                                              *)
(***************************************************************************)
Acme == <<"a","c","m","e">>
Bolt == <<"b","o","l","t">>

RawSlugInputs ==
    { None,
      Str(Acme),
      Str(<<" ","A","c","m","e","\n">>),
      Str(<<"T","e","m","p","l","a","t","e","1">>),
      Str(<<"r","o","o","t">>),
      Str(<<"a","_","b","c">>),
      Str(<<"a","c"," ","m","e">>),
      Str(<<"a","b">>),
      Str(<<"a","c","m","e","!">>),
      Str(<<>>),
      Str([i \in 1..(SlugMaxLen + 1) |-> "a"]) }

\* request.data.get('company_name'): absent, or a name
NoCompany == [isNone |-> TRUE, str |-> ""]

\* request bodies of create_tenant: every slug with a company name, and one
\* request that lacks the company name
CreateInputs ==
    { [tenant_slug |-> raw, company_name |-> [isNone |-> FALSE, str |-> "Acme Inc"]]
        : raw \in RawSlugInputs }
    \cup { [tenant_slug |-> Str(Acme), company_name |-> NoCompany] }

\* requests for two tenants
TwoSlugInputs == { Str(Acme), Str(Bolt) }

\* validate_and_normalize_slug over the request bodies
Validated ==
    [raw \in RawSlugInputs \cup TwoSlugInputs |-> validate_and_normalize_slug(raw)]

\* slugs used as the pk of update_status / delete_tenant / on-demand calls
PkInputs == { Acme, Bolt }

StatusInputs == { "ACTIVE", "SUSPENDED", "PROVISIONING" }

(***************************************************************************)
(* Values                                                                  *)
(***************************************************************************)
NoPassword == [fernet |-> <<"none", "none">>, sealed |-> 0]

\* a TenantDatabaseInfo instance that refers to no row
NoTenant ==
    [id |-> 0, tenant_slug |-> << >>, company_name |-> "",
     database_name |-> << >>, database_user |-> << >>,
     database_password |-> NoPassword,
     database_host |-> "", database_port |-> "",
     subscription_plan |-> "", status |-> "", is_active |-> FALSE]

\* one entry of the step ledger (None while `set` is FALSE)
StepNone == [set |-> FALSE, ok |-> FALSE, flags |-> {}]
Step(ok, flags) == [set |-> TRUE, ok |-> ok, flags |-> flags]

\* the `steps` dict as register_tenant_database initialises it (l.152-160)
EmptySteps ==
    [generate_credentials |-> StepNone, directory_row |-> StepNone,
     postgres_provision |-> StepNone, django_alias |-> StepNone,
     migrations |-> StepNone, templates |-> StepNone,
     final_status |-> "None", error |-> "None"]

\* a body of the template endpoint as response.json() gives it: a dict with
\* the keys `keys`, a list, or no value ("invalid": json() raises)
EmptyDict == [type |-> "dict", keys |-> {}, success |-> FALSE, frameworks_copied |-> 0]
TemplateBodies ==
    { [type |-> "dict", keys |-> {"success", "frameworks_copied"}, success |-> TRUE,  frameworks_copied |-> 1],
      [type |-> "dict", keys |-> {"success", "frameworks_copied"}, success |-> FALSE, frameworks_copied |-> 0],
      [type |-> "dict", keys |-> {"frameworks_copied"},            success |-> FALSE, frameworks_copied |-> 1] }
NonDictBodies ==
    { [type |-> "list",    keys |-> {}, success |-> FALSE, frameworks_copied |-> 0],
      [type |-> "invalid", keys |-> {}, success |-> FALSE, frameworks_copied |-> 0] }

\* bool(d) of a dict
Truthy(d) == d.keys # {}
\* d.get('success') is True
SuccessIsTrue(d) == "success" \in d.keys /\ d.success = TRUE

\* what one HTTP call to service 1 can come to
MigrateOutcomes == { [kind |-> "http", status |-> 200],
                     [kind |-> "http", status |-> 500],
                     [kind |-> "exception", status |-> 0] }
TemplateOutcomes ==
    { [kind |-> "http", status |-> 200, body |-> b] : b \in TemplateBodies }
    \cup { [kind |-> "http", status |-> 500, body |-> EmptyDict],
           [kind |-> "exception", status |-> 0, body |-> EmptyDict] }

\* how a remote call shows in the record of what a request called: answered
\* 200 or not (non-200, network error, timeout)
MigrateCall(outcome) ==
    IF outcome.kind = "http" /\ outcome.status = 200 THEN "migrate_200"
    ELSE "migrate_failed"
TemplatesCall(outcome) ==
    IF outcome.kind = "exception" \/ outcome.status # 200 THEN "templates_failed"
    ELSE IF SuccessIsTrue(outcome.body) THEN "templates_200_success"
    ELSE "templates_200"
MigrateCalls == {MigrateCall(o) : o \in MigrateOutcomes}
TemplatesCalls == {TemplatesCall(o) : o \in TemplateOutcomes}

\* locals of a worker that serves no request
IdleFrame ==
    [tenant_slug |-> << >>, company_name |-> "",
     tenant_info |-> NoTenant, db_password |-> 0,
     steps |-> EmptySteps, connection_name |-> << >>,
     migration_success |-> FALSE,
     calls |-> << >>, after_completed |-> FALSE]

NoResponse ==
    [http |-> 0, success |-> FALSE, kind |-> "none", tenant_slug |-> << >>,
     has_tenant |-> FALSE, tenant_status |-> "", database_name |-> << >>,
     has_steps |-> FALSE,
     \* observations of the request, not all part of the HTTP body:
     steps |-> EmptySteps,       \* the ledger when the request ended
     calls |-> << >>,            \* what the request called, in order
     after_completed |-> FALSE]  \* it began after an earlier one for the slug returned

(***************************************************************************)
(* State                                                                   *)
(***************************************************************************)
VARIABLES
    directory,      \* rows of table tenant_database_info
    pg_roles,       \* pg_roles: role name -> password
    pg_database,    \* pg_database: database name -> owner
    pg_grants,      \* <<database, role>> pairs holding ALL PRIVILEGES
    connections,    \* django.db.connections.databases: alias -> config
    migrated,       \* service 1: slugs whose migrate-tenant call answered 200
    seeded,         \* service 1: slugs whose templates call answered success
    pc,             \* per worker: where it stands in create_tenant
    frame,          \* per worker: locals of the request being served
    response,       \* the response create_tenant returned in the last step
    completed,      \* slugs for which a create_tenant request has returned
    requests,       \* number of create_tenant requests accepted for processing
    adminOps,       \* number of other calls that changed a row or the registry
    lastCall,       \* the update_status/delete/on-demand call of the last step
    loader,         \* load_all_tenant_databases: where its loop stands
    applied         \* a function of the service applied on its own: input and result

vars == <<directory, pg_roles, pg_database, pg_grants, connections,
          migrated, seeded, pc, frame, response, completed, requests,
          adminOps, lastCall, loader, applied>>

store == <<pg_roles, pg_database, pg_grants>>
remote == <<migrated, seeded>>
aux == <<loader, applied>>

EmptyMap == [x \in {} |-> 0]

NoCall == [op |-> "none", pk |-> << >>, http |-> 0, result |-> "none",
           returned |-> << >>, lookup |-> FALSE]

\* load_all_tenant_databases is not running
NoLoader == [pc |-> "off", queryset |-> << >>, loaded |-> {}, failed |-> {},
             raised |-> FALSE]

\* no function is applied on its own
NotApplied == [fn |-> "none"]

Init ==
    /\ directory = {}
    /\ pg_roles = EmptyMap
    /\ pg_database = EmptyMap
    /\ pg_grants = {}
    /\ connections = EmptyMap
    /\ migrated = {}
    /\ seeded = {}
    /\ pc = [w \in Workers |-> "idle"]
    /\ frame = [w \in Workers |-> IdleFrame]
    /\ response = NoResponse
    /\ completed = {}
    /\ requests = 0
    /\ adminOps = 0
    /\ lastCall = NoCall
    /\ loader = NoLoader
    /\ applied = NotApplied

(***************************************************************************)
(* The tenant directory (Django ORM over table tenant_database_info)       *)
(***************************************************************************)
\* TenantDatabaseInfo.objects.filter(tenant_slug=slug)
RowsBySlug(dir, slug) == {r \in dir : r.tenant_slug = slug}

\* .first() of a queryset: a row, or None (NoTenant)
First(rows) ==
    IF rows = {} THEN NoTenant
    ELSE CHOOSE r \in rows : \A q \in rows : r.id <= q.id

\* ExistingTenant that looks at active rows only
ExistingTenant_ActiveOnly(dir, slug) ==
    First({r \in RowsBySlug(dir, slug) : r.is_active})

\* views.py l.90: TenantDatabaseInfo.objects.filter(tenant_slug=...).first()
ExistingTenant(dir, slug) == First(RowsBySlug(dir, slug))

\* Save on a column that is not unique
Save_NotUnique(dir, obj) ==
    IF \E r \in dir : r.id = obj.id
    THEN [ok |-> TRUE, directory |-> {r \in dir : r.id # obj.id} \cup {obj}]
    ELSE [ok |-> TRUE, directory |-> dir \cup {obj}]

\* Model.save(): UPDATE of the row with the instance's primary key (every
\* column is written from the instance), else INSERT.  tenant_slug is
\* unique=True, so a second row with the slug is an IntegrityError.
Save(dir, obj) ==
    IF \E r \in dir : r.id = obj.id
    THEN [ok |-> TRUE, directory |-> {r \in dir : r.id # obj.id} \cup {obj}]
    ELSE IF \E r \in dir : r.tenant_slug = obj.tenant_slug
    THEN [ok |-> FALSE, directory |-> dir]
    ELSE [ok |-> TRUE, directory |-> dir \cup {obj}]

(***************************************************************************)
(* tenant_utils.py: the database provisioner                               *)
(***************************************************************************)
\* where a run of create_postgresql_database can meet a data-store error
FailPoints == {"connect", "database", "grant", "none"}

\* create_postgresql_database that leaves a role it finds as it is
create_postgresql_database_CreateOnly(roles, dbs, grants, db_name, db_user, db_password, failAt) ==
    LET roles1 == IF failAt = "connect" \/ db_user \in DOMAIN roles THEN roles
                  ELSE (db_user :> db_password) @@ roles
        dbs1   == IF failAt \in {"connect", "database"} \/ db_name \in DOMAIN dbs THEN dbs
                  ELSE (db_name :> db_user) @@ dbs
        grants1 == IF failAt = "none" THEN grants \cup {<<db_name, db_user>>}
                   ELSE grants
    IN  [raised |-> failAt # "none",
         pg_roles |-> roles1, pg_database |-> dbs1, pg_grants |-> grants1]

\* create_postgresql_database: the autocommit statements executed before
\* the statement that fails (if any) take effect.
create_postgresql_database(roles, dbs, grants, db_name, db_user, db_password, failAt) ==
    LET role_exists == db_user \in DOMAIN roles
        \* 1) CREATE USER ... WITH PASSWORD / ALTER ROLE ... PASSWORD
        roles1 == IF failAt = "connect" THEN roles
                  ELSE IF ~role_exists THEN (db_user :> db_password) @@ roles
                  ELSE [roles EXCEPT ![db_user] = db_password]
        db_exists == db_name \in DOMAIN dbs
        \* 2) CREATE DATABASE ... OWNER / ALTER DATABASE ... OWNER TO
        dbs1   == IF failAt \in {"connect", "database"} THEN dbs
                  ELSE IF ~db_exists THEN (db_name :> db_user) @@ dbs
                  ELSE IF dbs[db_name] # db_user
                       THEN [dbs EXCEPT ![db_name] = db_user]
                  ELSE dbs
        \* 3) GRANT ALL PRIVILEGES
        grants1 == IF failAt = "none" THEN grants \cup {<<db_name, db_user>>}
                   ELSE grants
    IN  [raised |-> failAt # "none",
         pg_roles |-> roles1, pg_database |-> dbs1, pg_grants |-> grants1]

(***************************************************************************)
(* tenant_utils.py: the connection registry                                *)
(***************************************************************************)
\* db_config that keeps the USER of the default configuration
TenantConfig_DefaultUser(tenant_info, password) ==
    [NAME |-> tenant_info.database_name, USER |-> <<"p","o","s","t","g","r","e","s">>,
     PASSWORD |-> password,
     HOST |-> tenant_info.database_host, PORT |-> tenant_info.database_port]

\* db_config built by add_tenant_database_to_django (l.117-124)
TenantConfig(tenant_info, password) ==
    [NAME |-> tenant_info.database_name, USER |-> tenant_info.database_user,
     PASSWORD |-> password, HOST |-> tenant_info.database_host,
     PORT |-> tenant_info.database_port]

\* add_tenant_database_to_django: raises when the password does not decrypt
add_tenant_database_to_django(conns, tenant_info) ==
    LET pw == decrypt_password(tenant_info)
        connection_name == ConnectionName(tenant_info.tenant_slug)
    IN  IF ~pw.ok
        THEN [raised |-> TRUE, connection_name |-> << >>, connections |-> conns]
        ELSE [raised |-> FALSE, connection_name |-> connection_name,
              connections |-> (connection_name :> TenantConfig(tenant_info, pw.value)) @@ conns]

(***************************************************************************)
(* tenant_utils.py: the remote calls                                       *)
(***************************************************************************)
\* run_tenant_migrations_via_service1 that takes every HTTP answer for success
run_tenant_migrations_AnyAnswer(outcome) ==
    IF outcome.kind = "exception" THEN FALSE ELSE TRUE

\* run_tenant_migrations_via_service1: True iff the answer is HTTP 200
run_tenant_migrations_via_service1(outcome) ==
    IF outcome.kind = "exception" THEN FALSE
    ELSE IF outcome.status = 200 THEN TRUE
    ELSE FALSE

\* copy_framework_templates_via_service1 that returns the body of every answer
copy_framework_templates_AnyAnswer(outcome) ==
    IF outcome.kind = "exception" THEN EmptyDict
    ELSE IF outcome.body.type = "dict" THEN outcome.body
    ELSE EmptyDict

\* copy_framework_templates_via_service1: the parsed body on 200, else {};
\* response.json() of an invalid body and result.get of a list raise inside
\* the try block and end in the except of l.287-289
copy_framework_templates_via_service1(outcome) ==
    IF outcome.kind = "exception" THEN EmptyDict
    ELSE IF outcome.status = 200
         THEN IF outcome.body.type = "dict" THEN outcome.body
              ELSE EmptyDict
    ELSE EmptyDict

(***************************************************************************)
(* views.py: create_tenant, with register_tenant_database inlined at the   *)
(* points where it touches the directory, the data store, the registry or  *)
(* the remote service.                                                     *)
(***************************************************************************)
\* the Response objects create_tenant returns
ErrorResponse(http, kind, f) ==
    [NoResponse EXCEPT !.http = http, !.kind = kind,
                       !.tenant_slug = f.tenant_slug,
                       !.steps = f.steps, !.calls = f.calls,
                       !.after_completed = f.after_completed]

TenantResponse(http, kind, f, tenant, steps) ==
    [http |-> http, success |-> TRUE, kind |-> kind,
     tenant_slug |-> f.tenant_slug,
     has_tenant |-> TRUE, tenant_status |-> tenant.status,
     database_name |-> tenant.database_name,
     has_steps |-> TRUE, steps |-> steps,
     calls |-> f.calls,
     after_completed |-> f.after_completed]

\* the worker returns `resp` and is ready for the next request
Return(w, resp) ==
    /\ response' = resp
    /\ pc' = [pc EXCEPT ![w] = "idle"]
    /\ frame' = [frame EXCEPT ![w] = IdleFrame]
    /\ completed' = IF resp.kind \in {"validation", "required"} THEN completed
                    ELSE completed \cup {resp.tenant_slug}

\* views.py l.72-91: validation and the existence check; the request is
\* served by one of the idle threads, whichever it is
create_tenant(w, raw_slug, company_name) ==
    /\ pc[w] = "idle"
    /\ w = CHOOSE v \in Workers : pc[v] = "idle"
    /\ requests < MaxRequests
    /\ LET v == Validated[raw_slug]
           f == [IdleFrame EXCEPT !.tenant_slug = v.slug,
                                  !.company_name = company_name.str,
                                  !.after_completed = v.slug \in completed]
           existing == ExistingTenant(directory, v.slug)
       IN  IF ~v.ok
           THEN Return(w, ErrorResponse(400, "validation", IdleFrame))
                /\ UNCHANGED requests
           ELSE IF company_name.isNone \/ company_name.str = ""
           THEN Return(w, ErrorResponse(400, "required", f))
                /\ UNCHANGED requests
           ELSE /\ requests' = requests + 1
                /\ frame' = [frame EXCEPT ![w] =
                               [f EXCEPT !.tenant_info = existing]]
                /\ pc' = [pc EXCEPT ![w] =
                               IF existing # NoTenant THEN "reuse_alias"
                               ELSE "reg_save"]
                /\ response' = NoResponse /\ UNCHANGED completed
    /\ UNCHANGED <<directory, store, connections, remote, adminOps>>
    /\ lastCall' = NoCall
    /\ UNCHANGED aux

\* the worker's frame after it called `what`
Called(f, what) == [f EXCEPT !.calls = Append(@, what)]

\* views.py l.93: add_tenant_database_to_django(existing); an exception here
\* is outside every try block of the view
reuse_alias(w) ==
    /\ pc[w] = "reuse_alias"
    /\ LET f == Called(frame[w], "alias")
           r == add_tenant_database_to_django(connections, f.tenant_info)
       IN  IF r.raised
           THEN /\ Return(w, ErrorResponse(500, "server_error", f))
                /\ UNCHANGED connections
           ELSE /\ connections' = r.connections
                /\ frame' = [frame EXCEPT ![w] =
                               [f EXCEPT !.connection_name = r.connection_name]]
                /\ pc' = [pc EXCEPT ![w] = "reuse_migrate"]
                /\ response' = NoResponse /\ UNCHANGED completed
    /\ UNCHANGED <<directory, store, remote, requests, adminOps>>
    /\ lastCall' = NoCall
    /\ UNCHANGED aux

\* views.py l.94
reuse_migrate(w) ==
    /\ pc[w] = "reuse_migrate"
    /\ \E outcome \in MigrateOutcomes :
         LET ok == run_tenant_migrations_via_service1(outcome)
         IN  /\ migrated' = IF outcome.kind = "http" /\ outcome.status = 200
                            THEN migrated \cup {frame[w].tenant_slug}
                            ELSE migrated
             /\ frame' = [frame EXCEPT ![w] =
                            [Called(@, MigrateCall(outcome)) EXCEPT !.migration_success = ok]]
    /\ pc' = [pc EXCEPT ![w] = "reuse_templates"]
    /\ response' = NoResponse
    /\ UNCHANGED <<directory, store, connections, seeded, completed, requests, adminOps>>
    /\ lastCall' = NoCall
    /\ UNCHANGED aux

\* the `steps` literal of the reuse response (views.py l.112-120)
ReuseSteps(existing, migration_success, template_success) ==
    [generate_credentials |-> Step(TRUE, {"reused"}),
     directory_row        |-> Step(TRUE, {"reused"}),
     postgres_provision   |-> Step(TRUE, {"skipped"}),
     django_alias         |-> Step(TRUE, {}),
     migrations           |-> Step(migration_success, {}),
     templates            |-> Step(Truthy(template_success), {}),
     final_status         |-> existing.status,
     error                |-> "None"]

\* reuse_templates that saves a final status as the fresh path does
reuse_templates_Finalizes(w) ==
    /\ pc[w] = "reuse_templates"
    /\ \E outcome \in TemplateOutcomes :
         LET template_success == copy_framework_templates_via_service1(outcome)
             f == Called(frame[w], TemplatesCall(outcome))
             all_ok == f.migration_success /\ Truthy(template_success)
         IN  /\ seeded' = IF outcome.kind = "http" /\ outcome.status = 200
                             /\ SuccessIsTrue(outcome.body)
                          THEN seeded \cup {f.tenant_slug}
                          ELSE seeded
             /\ directory' = Save(directory,
                               [f.tenant_info EXCEPT !.status =
                                  IF all_ok THEN "ACTIVE" ELSE "PROVISIONING_FAILED"]).directory
             /\ Return(w, TenantResponse(200, "reused", f, f.tenant_info,
                            ReuseSteps(f.tenant_info, f.migration_success,
                                       template_success)))
    /\ UNCHANGED <<store, connections, migrated, requests, adminOps>>
    /\ lastCall' = NoCall
    /\ UNCHANGED aux

\* views.py l.96-122
reuse_templates(w) ==
    /\ pc[w] = "reuse_templates"
    /\ \E outcome \in TemplateOutcomes :
         LET template_success == copy_framework_templates_via_service1(outcome)
             f == Called(frame[w], TemplatesCall(outcome))
         IN  /\ seeded' = IF outcome.kind = "http" /\ outcome.status = 200
                             /\ SuccessIsTrue(outcome.body)
                          THEN seeded \cup {f.tenant_slug}
                          ELSE seeded
             /\ Return(w, TenantResponse(200, "reused", f, f.tenant_info,
                            ReuseSteps(f.tenant_info, f.migration_success,
                                       template_success)))
    /\ UNCHANGED <<directory, store, connections, migrated,
                   requests, adminOps>>
    /\ lastCall' = NoCall
    /\ UNCHANGED aux

(***************************************************************************)
(* tenant_utils.py: register_tenant_database, called at views.py l.127.    *)
(* Whatever it raises is caught at views.py l.157 and answered with a 400  *)
(* that carries only the error text.                                       *)
(***************************************************************************)
\* views.py l.157-161
FailedResponse(f) == ErrorResponse(400, "failed", f)

\* models.py l.19, default=uuid.uuid4: an id no row has; ids are opaque, so
\* the least unused number stands for the fresh value
uuid4(dir) == CHOOSE i \in 1..(Cardinality(dir) + 1) : \A r \in dir : r.id # i

\* tenant_utils.py l.25-26: 16 characters drawn by secrets.choice; the
\* least token that no row, role or request holds stands for the new value
secrets_choice ==
    LET used == {r.database_password.sealed : r \in directory}
                \cup {pg_roles[u] : u \in DOMAIN pg_roles}
                \cup {frame[w].db_password : w \in Workers}
    IN  CHOOSE n \in 1..(Cardinality(used) + 1) : n \notin used

\* an instance built without status=, which takes the column's default
NewTenantInfo_DefaultStatus(id, tenant_slug, company_name, creds) ==
    [id |-> id, tenant_slug |-> tenant_slug, company_name |-> company_name,
     database_name |-> creds.db_name, database_user |-> creds.db_user,
     database_password |-> encrypt_password(creds.password),
     database_host |-> DEFAULT_HOST, database_port |-> DEFAULT_PORT,
     subscription_plan |-> "BASIC", status |-> "ACTIVE",
     is_active |-> TRUE]

\* the TenantDatabaseInfo instance built at l.167-178
NewTenantInfo(id, tenant_slug, company_name, creds) ==
    [id |-> id, tenant_slug |-> tenant_slug, company_name |-> company_name,
     database_name |-> creds.db_name, database_user |-> creds.db_user,
     database_password |-> encrypt_password(creds.password),
     database_host |-> DEFAULT_HOST, database_port |-> DEFAULT_PORT,
     subscription_plan |-> "BASIC", status |-> "PROVISIONING",
     is_active |-> TRUE]

\* l.162-180: credentials and the directory row; save() is not inside the
\* try block, so its IntegrityError leaves the function as it is
reg_save(w) ==
    /\ pc[w] = "reg_save"
    /\ LET creds == generate_database_credentials(frame[w].tenant_slug, secrets_choice)
           f1 == [Called(frame[w], "credentials") EXCEPT
                    !.steps.generate_credentials = Step(TRUE, {}),
                    !.db_password = creds.password]
           tenant_info == NewTenantInfo(uuid4(directory), f1.tenant_slug, f1.company_name, creds)
           sv == Save(directory, tenant_info)
           f2 == Called(f1, "directory_row")
       IN  IF ~sv.ok
           THEN /\ Return(w, FailedResponse(f2))
                /\ UNCHANGED directory
           ELSE /\ directory' = sv.directory
                /\ frame' = [frame EXCEPT ![w] =
                               [f2 EXCEPT !.tenant_info = tenant_info,
                                          !.steps.directory_row = Step(TRUE, {})]]
                /\ pc' = [pc EXCEPT ![w] = "reg_provision"]
                /\ response' = NoResponse /\ UNCHANGED completed
    /\ UNCHANGED <<store, connections, remote, requests, adminOps>>
    /\ lastCall' = NoCall
    /\ UNCHANGED aux

\* an except block that re-raises without saving the row
Except_NoSave(w, f, error) ==
    LET f1 == [f EXCEPT !.steps.final_status = "PROVISIONING_FAILED",
                        !.steps.error = error]
    IN  /\ UNCHANGED directory
        /\ Return(w, FailedResponse(f1))

\* l.216-224: the except block; the row is saved as PROVISIONING_FAILED,
\* the ledger takes the error, and the exception goes on to the view
Except(w, f, error) ==
    LET tenant_info == [f.tenant_info EXCEPT !.status = "PROVISIONING_FAILED"]
        f1 == [f EXCEPT !.tenant_info = tenant_info,
                        !.steps.final_status = "PROVISIONING_FAILED",
                        !.steps.error = error]
    IN  /\ directory' = Save(directory, tenant_info).directory
        /\ Return(w, FailedResponse(f1))

\* l.184-185
reg_provision(w) ==
    /\ pc[w] = "reg_provision"
    /\ \E failAt \in FailPoints :
         LET f == Called(frame[w], "provision")
             ti == f.tenant_info
             r == create_postgresql_database(pg_roles, pg_database, pg_grants,
                      ti.database_name, ti.database_user, f.db_password, failAt)
         IN  /\ pg_roles' = r.pg_roles
             /\ pg_database' = r.pg_database
             /\ pg_grants' = r.pg_grants
             /\ IF r.raised
                THEN Except(w, f, "ProvisioningError")
                ELSE /\ frame' = [frame EXCEPT ![w] =
                                    [f EXCEPT !.steps.postgres_provision = Step(TRUE, {})]]
                     /\ pc' = [pc EXCEPT ![w] = "reg_alias"]
                     /\ response' = NoResponse /\ UNCHANGED <<directory, completed>>
    /\ UNCHANGED <<connections, remote, requests, adminOps>>
    /\ lastCall' = NoCall
    /\ UNCHANGED aux

\* l.188-189
reg_alias(w) ==
    /\ pc[w] = "reg_alias"
    /\ LET f == Called(frame[w], "alias")
           r == add_tenant_database_to_django(connections, f.tenant_info)
       IN  /\ connections' = r.connections
           /\ IF r.raised
              THEN Except(w, f, "DecryptionError")
              ELSE /\ frame' = [frame EXCEPT ![w] =
                                  [f EXCEPT !.steps.django_alias = Step(TRUE, {}),
                                            !.connection_name = r.connection_name]]
                   /\ pc' = [pc EXCEPT ![w] = "reg_migrate"]
                   /\ response' = NoResponse /\ UNCHANGED <<directory, completed>>
    /\ UNCHANGED <<store, remote, requests, adminOps>>
    /\ lastCall' = NoCall
    /\ UNCHANGED aux

\* l.192-193
reg_migrate(w) ==
    /\ pc[w] = "reg_migrate"
    /\ \E outcome \in MigrateOutcomes :
         LET migration_success == run_tenant_migrations_via_service1(outcome)
         IN  /\ migrated' = IF outcome.kind = "http" /\ outcome.status = 200
                            THEN migrated \cup {frame[w].tenant_slug}
                            ELSE migrated
             /\ frame' = [frame EXCEPT ![w] =
                            [Called(@, MigrateCall(outcome)) EXCEPT
                               !.migration_success = migration_success,
                               !.steps.migrations = Step(migration_success, {})]]
    /\ pc' = [pc EXCEPT ![w] = "reg_templates"]
    /\ response' = NoResponse
    /\ UNCHANGED <<directory, store, connections, seeded, completed, requests, adminOps>>
    /\ lastCall' = NoCall
    /\ UNCHANGED aux

\* l.197: bool(template_result) and template_result.get('success') is True
TemplateOk(template_result) ==
    Truthy(template_result) /\ SuccessIsTrue(template_result)

\* l.196-198
reg_templates(w) ==
    /\ pc[w] = "reg_templates"
    /\ \E outcome \in TemplateOutcomes :
         LET template_result == copy_framework_templates_via_service1(outcome)
         IN  /\ seeded' = IF outcome.kind = "http" /\ outcome.status = 200
                             /\ SuccessIsTrue(outcome.body)
                          THEN seeded \cup {frame[w].tenant_slug}
                          ELSE seeded
             /\ frame' = [frame EXCEPT ![w] =
                            [Called(@, TemplatesCall(outcome)) EXCEPT
                               !.steps.templates = Step(TemplateOk(template_result), {})]]
    /\ pc' = [pc EXCEPT ![w] = "reg_final"]
    /\ response' = NoResponse
    /\ UNCHANGED <<directory, store, connections, migrated, completed, requests, adminOps>>
    /\ lastCall' = NoCall
    /\ UNCHANGED aux

\* AllOk without the templates conjunct
AllOk_SkipTemplates(steps) ==
    /\ steps.postgres_provision.ok
    /\ steps.django_alias.ok
    /\ steps.migrations.ok

\* l.201
AllOk(steps) ==
    /\ steps.postgres_provision.ok
    /\ steps.django_alias.ok
    /\ steps.migrations.ok
    /\ steps.templates.ok

\* l.202
FinalStatus(steps) == IF AllOk(steps) THEN "ACTIVE" ELSE "PROVISIONING_FAILED"

\* l.201-214 and views.py l.136-155
reg_final(w) ==
    /\ pc[w] = "reg_final"
    /\ LET f == Called(frame[w], "final_status")
           tenant_info == [f.tenant_info EXCEPT !.status = FinalStatus(f.steps)]
           f1 == [f EXCEPT !.tenant_info = tenant_info,
                           !.steps.final_status = tenant_info.status]
       IN  /\ directory' = Save(directory, tenant_info).directory
           /\ Return(w, TenantResponse(201, "created", f1, tenant_info, f1.steps))
    /\ UNCHANGED <<store, connections, remote, requests, adminOps>>
    /\ lastCall' = NoCall
    /\ UNCHANGED aux

(***************************************************************************)
(* views.py: update_status and delete_tenant; tenant_utils.py: on-demand   *)
(* registration.  Each reads and writes the directory without a remote     *)
(* call in between and is one step.                                        *)
(***************************************************************************)
valid_statuses == {"ACTIVE", "SUSPENDED", "INACTIVE"}

Call(op, pk, http, result) ==
    [NoCall EXCEPT !.op = op, !.pk = pk, !.http = http, !.result = result]

\* update_status that seals a new password into the row it saves
update_status_Rotates(pk, new_status) ==
    /\ adminOps < MaxAdminOps
    /\ ExistingTenant(directory, pk) # NoTenant
    /\ new_status \in valid_statuses
    /\ adminOps' = adminOps + 1
    /\ directory' = Save(directory,
                      [ExistingTenant(directory, pk) EXCEPT
                         !.status = new_status,
                         !.database_password = encrypt_password(secrets_choice)]).directory
    /\ lastCall' = Call("update_status", pk, 200, new_status)
    /\ UNCHANGED <<store, connections, remote, pc, frame, completed, requests>>
    /\ response' = NoResponse
    /\ UNCHANGED aux

\* views.py l.164-186
update_status(pk, new_status) ==
    /\ adminOps < MaxAdminOps
    /\ LET tenant == ExistingTenant(directory, pk)   \* get_object_or_404
       IN  IF tenant = NoTenant
           THEN /\ lastCall' = Call("update_status", pk, 404, "not_found")
                /\ UNCHANGED <<directory, adminOps>>
           ELSE IF new_status \notin valid_statuses
           THEN /\ lastCall' = Call("update_status", pk, 400, "invalid_status")
                /\ UNCHANGED <<directory, adminOps>>
           ELSE /\ adminOps' = adminOps + 1
                /\ directory' = Save(directory, [tenant EXCEPT !.status = new_status]).directory
                /\ lastCall' = Call("update_status", pk, 200, new_status)
    /\ UNCHANGED <<store, connections, remote, pc, frame, completed, requests>>
    /\ response' = NoResponse
    /\ UNCHANGED aux

\* delete_tenant that also takes the tenant's entry out of the registry
delete_tenant_DropsAlias(pk) ==
    /\ adminOps < MaxAdminOps
    /\ ExistingTenant(directory, pk) # NoTenant
    /\ adminOps' = adminOps + 1
    /\ directory' = Save(directory,
                      [ExistingTenant(directory, pk) EXCEPT !.is_active = FALSE,
                                                            !.status = "INACTIVE"]).directory
    /\ connections' = [k \in DOMAIN connections \ {ConnectionName(pk)} |-> connections[k]]
    /\ lastCall' = Call("delete_tenant", pk, 200, "INACTIVE")
    /\ UNCHANGED <<store, remote, pc, frame, completed, requests>>
    /\ response' = NoResponse
    /\ UNCHANGED aux

\* views.py l.189-203
delete_tenant(pk) ==
    /\ adminOps < MaxAdminOps
    /\ LET tenant == ExistingTenant(directory, pk)   \* get_object_or_404
       IN  IF tenant = NoTenant
           THEN /\ lastCall' = Call("delete_tenant", pk, 404, "not_found")
                /\ UNCHANGED <<directory, adminOps>>
           ELSE /\ adminOps' = adminOps + 1
                /\ directory' = Save(directory,
                                  [tenant EXCEPT !.is_active = FALSE,
                                                 !.status = "INACTIVE"]).directory
                /\ lastCall' = Call("delete_tenant", pk, 200, "INACTIVE")
    /\ UNCHANGED <<store, connections, remote, pc, frame, completed, requests>>
    /\ response' = NoResponse
    /\ UNCHANGED aux

\* tenant_utils.py l.292-309: the active row of the slug, or None (NoTenant)
get_tenant_database_credentials(dir, tenant_slug) ==
    First({r \in RowsBySlug(dir, tenant_slug) : r.is_active})

\* tenant_utils.py l.312-338; `returned` is the name it returns, `lookup`
\* whether it came to query the directory (l.321)
register_tenant_database_alias_on_demand(tenant_slug) ==
    /\ LET connection_name == ConnectionName(tenant_slug)
           tenant_info == get_tenant_database_credentials(directory, tenant_slug)
           pw == decrypt_password(tenant_info)
           call(result, http) == [Call("on_demand", tenant_slug, http, result)
                                    EXCEPT !.lookup = TRUE]
       IN  IF connection_name \in DOMAIN connections
           THEN /\ lastCall' = [Call("on_demand", tenant_slug, 200, "registered_before")
                                  EXCEPT !.returned = connection_name]
                /\ UNCHANGED <<connections, adminOps>>
           ELSE IF tenant_info = NoTenant
           THEN /\ lastCall' = call("not_found", 500)
                /\ UNCHANGED <<connections, adminOps>>
           ELSE IF ~pw.ok
           THEN /\ lastCall' = call("decrypt_failed", 500)
                /\ UNCHANGED <<connections, adminOps>>
           ELSE /\ adminOps < MaxAdminOps
                /\ adminOps' = adminOps + 1
                /\ connections' =
                      (connection_name :> TenantConfig(tenant_info, pw.value)) @@ connections
                /\ lastCall' = [call("registered", 200)
                                  EXCEPT !.returned = connection_name]
    /\ UNCHANGED <<directory, store, remote, pc, frame, completed, requests>>
    /\ response' = NoResponse
    /\ UNCHANGED aux

(***************************************************************************)
(* Specification                                                           *)
(***************************************************************************)
Next ==
    \/ \E w \in Workers, data \in CreateInputs :
         create_tenant(w, data.tenant_slug, data.company_name)
    \/ \E w \in Workers : reuse_alias(w)
    \/ \E w \in Workers : reuse_migrate(w)
    \/ \E w \in Workers : reuse_templates(w)
    \/ \E w \in Workers : reg_save(w)
    \/ \E w \in Workers : reg_provision(w)
    \/ \E w \in Workers : reg_alias(w)
    \/ \E w \in Workers : reg_migrate(w)
    \/ \E w \in Workers : reg_templates(w)
    \/ \E w \in Workers : reg_final(w)
    \/ \E pk \in PkInputs, new_status \in StatusInputs : update_status(pk, new_status)
    \/ \E pk \in PkInputs : delete_tenant(pk)
    \/ \E tenant_slug \in PkInputs : register_tenant_database_alias_on_demand(tenant_slug)

Spec == Init /\ [][Next]_vars

(***************************************************************************)
(* create_tenant requests for two tenants, served side by side.            *)
(***************************************************************************)
NextTwo ==
    \/ \E w \in Workers, raw_slug \in TwoSlugInputs :
         create_tenant(w, raw_slug, [isNone |-> FALSE, str |-> "Company"])
    \/ \E w \in Workers : reuse_alias(w)
    \/ \E w \in Workers : reuse_migrate(w)
    \/ \E w \in Workers : reuse_templates(w)
    \/ \E w \in Workers : reg_save(w)
    \/ \E w \in Workers : reg_provision(w)
    \/ \E w \in Workers : reg_alias(w)
    \/ \E w \in Workers : reg_migrate(w)
    \/ \E w \in Workers : reg_templates(w)
    \/ \E w \in Workers : reg_final(w)

SpecTwo == Init /\ [][NextTwo]_vars

(***************************************************************************)
(* tenant_utils.py: load_all_tenant_databases, the bulk load at startup.   *)
(* The directory it meets was written by earlier runs of the service; a    *)
(* row written while SECRET_KEY had another value does not decrypt.        *)
(***************************************************************************)
Core == <<"c","o","r","e">>

\* the slugs of the directory at startup, in the order of Meta.ordering
LoadSlugs == <<Acme, Bolt, Core>>

\* a value SECRET_KEY had in an earlier deployment
EARLIER_SECRET_KEY == "earlier-secret-key"

\* what the directory can hold for the i-th slug: no row, an active row, an
\* active row sealed under the earlier key, a soft-deleted row
LoadRowKinds == {"none", "active", "undecryptable", "inactive"}

LoadRow(i, kind) ==
    LET slug == LoadSlugs[i]
        row == NewTenantInfo(i, slug, "Company", generate_database_credentials(slug, i))
    IN  IF kind = "active" THEN [row EXCEPT !.status = "ACTIVE"]
        ELSE IF kind = "inactive"
             THEN [row EXCEPT !.status = "INACTIVE", !.is_active = FALSE]
        ELSE [row EXCEPT !.status = "ACTIVE",
                         !.database_password =
                             FernetEncrypt(DeriveKey(EARLIER_SECRET_KEY), i)]

LoadDirectories ==
    { {LoadRow(i, kinds[i]) : i \in {j \in DOMAIN LoadSlugs : kinds[j] # "none"}}
        : kinds \in [DOMAIN LoadSlugs -> LoadRowKinds] }

\* l.139: TenantDatabaseInfo.objects.filter(is_active=True), ordered by slug
ActiveQueryset(dir) ==
    LET at(i) == {r \in dir : r.tenant_slug = LoadSlugs[i] /\ r.is_active}
        F[i \in 0..Len(LoadSlugs)] ==
            IF i = 0 THEN << >>
            ELSE IF at(i) = {} THEN F[i - 1]
            ELSE Append(F[i - 1], CHOOSE r \in at(i) : TRUE)
    IN  F[Len(LoadSlugs)]

\* the loop body without the try/except: the exception leaves the function
load_tenant_NoTry(ld, conns, tenant_info) ==
    LET r == add_tenant_database_to_django(conns, tenant_info)
    IN  IF r.raised
        THEN [loader |-> [ld EXCEPT !.pc = "done", !.raised = TRUE,
                                    !.failed = @ \cup {tenant_info.tenant_slug}],
              connections |-> conns]
        ELSE [loader |-> [ld EXCEPT !.queryset = Tail(@),
                                    !.loaded = @ \cup {tenant_info.tenant_slug}],
              connections |-> r.connections]

\* l.140-144: one round of the loop
load_tenant(ld, conns, tenant_info) ==
    LET r == add_tenant_database_to_django(conns, tenant_info)
    IN  IF r.raised
        THEN [loader |-> [ld EXCEPT !.queryset = Tail(@),
                                    !.failed = @ \cup {tenant_info.tenant_slug}],
              connections |-> conns]
        ELSE [loader |-> [ld EXCEPT !.queryset = Tail(@),
                                    !.loaded = @ \cup {tenant_info.tenant_slug}],
              connections |-> r.connections]

main == <<directory, store, remote, pc, frame, response, completed,
          requests, adminOps, lastCall>>

\* l.137-139
load_all_tenant_databases ==
    /\ loader.pc = "off"
    /\ loader' = [loader EXCEPT !.pc = "loop", !.queryset = ActiveQueryset(directory)]
    /\ UNCHANGED <<main, connections, applied>>

\* l.139-144
load_next ==
    /\ loader.pc = "loop"
    /\ loader.queryset # << >>
    /\ LET r == load_tenant(loader, connections, Head(loader.queryset))
       IN  /\ loader' = r.loader
           /\ connections' = r.connections
    /\ UNCHANGED <<main, applied>>

\* l.146
load_return ==
    /\ loader.pc = "loop"
    /\ loader.queryset = << >>
    /\ loader' = [loader EXCEPT !.pc = "done"]
    /\ UNCHANGED <<main, connections, applied>>

InitLoad ==
    /\ directory \in LoadDirectories
    /\ pg_roles = EmptyMap
    /\ pg_database = EmptyMap
    /\ pg_grants = {}
    /\ connections = EmptyMap
    /\ migrated = {}
    /\ seeded = {}
    /\ pc = [w \in Workers |-> "idle"]
    /\ frame = [w \in Workers |-> IdleFrame]
    /\ response = NoResponse
    /\ completed = {}
    /\ requests = 0
    /\ adminOps = 0
    /\ lastCall = NoCall
    /\ loader = NoLoader
    /\ applied = NotApplied

NextLoad == load_all_tenant_databases \/ load_next \/ load_return

SpecLoad == InitLoad /\ [][NextLoad]_vars

(***************************************************************************)
(* tenant_utils.py: the two remote operations on their own, over the       *)
(* answers an HTTP call can come to.  A network failure and a timeout are  *)
(* both an exception raised by requests.post.                              *)
(***************************************************************************)
RemoteStatuses == {200, 201, 204, 302, 400, 401, 404, 500, 503}

RemoteAnswers ==
    { [kind |-> "http", status |-> st, body |-> b] :
        st \in RemoteStatuses,
        b \in TemplateBodies \cup NonDictBodies \cup {EmptyDict} }
    \cup { [kind |-> "exception", status |-> 0, body |-> EmptyDict] }

\* l.227-251 called on its own
apply_run_tenant_migrations(answer) ==
    /\ applied' = [fn |-> "run_tenant_migrations_via_service1", input |-> answer,
                   output |-> run_tenant_migrations_via_service1(answer)]
    /\ UNCHANGED <<main, connections, loader>>

\* l.254-289 called on its own
apply_copy_framework_templates(answer) ==
    /\ applied' = [fn |-> "copy_framework_templates_via_service1", input |-> answer,
                   output |-> copy_framework_templates_via_service1(answer)]
    /\ UNCHANGED <<main, connections, loader>>

NextRemote ==
    \/ \E answer \in RemoteAnswers : apply_run_tenant_migrations(answer)
    \/ \E answer \in RemoteAnswers : apply_copy_framework_templates(answer)

SpecRemote == Init /\ [][NextRemote]_vars

(***************************************************************************)
(* tenant_utils.py: create_postgresql_database on its own, from every      *)
(* state of the data store over two tenants' names: each role absent or    *)
(* present with some password, each database absent or owned by a role     *)
(* that exists.                                                            *)
(***************************************************************************)
EnsureSlugs == {Acme, Bolt}
EnsurePasswords == {1, 2}

EnsureRoles ==
    UNION { [users -> EnsurePasswords] :
              users \in SUBSET {s \o Suffix_user : s \in EnsureSlugs} }

EnsureDatabases(roles) ==
    UNION { [names -> DOMAIN roles] :
              names \in SUBSET {s \o Suffix_compliance_db : s \in EnsureSlugs} }

InitEnsure ==
    /\ pg_roles \in EnsureRoles
    /\ pg_database \in EnsureDatabases(pg_roles)
    /\ pg_grants \in {{}, {<<n, pg_database[n]>> : n \in DOMAIN pg_database}}
    /\ directory = {}
    /\ connections = EmptyMap
    /\ migrated = {}
    /\ seeded = {}
    /\ pc = [w \in Workers |-> "idle"]
    /\ frame = [w \in Workers |-> IdleFrame]
    /\ response = NoResponse
    /\ completed = {}
    /\ requests = 0
    /\ adminOps = 0
    /\ lastCall = NoCall
    /\ loader = NoLoader
    /\ applied = NotApplied

\* l.30-107 called on its own; `before` is the data store it met, `repeat`
\* tells that the call before it had the same arguments and succeeded
apply_create_postgresql_database(db_name, db_user, db_password, failAt) ==
    LET r == create_postgresql_database(pg_roles, pg_database, pg_grants,
                                        db_name, db_user, db_password, failAt)
        args == <<db_name, db_user, db_password>>
    IN  /\ pg_roles' = r.pg_roles
        /\ pg_database' = r.pg_database
        /\ pg_grants' = r.pg_grants
        /\ applied' = [fn |-> "create_postgresql_database", args |-> args,
                       before |-> <<pg_roles, pg_database, pg_grants>>,
                       raised |-> r.raised,
                       repeat |-> /\ applied.fn = "create_postgresql_database"
                                  /\ ~applied.raised
                                  /\ applied.args = args]
        /\ UNCHANGED <<directory, connections, remote, pc, frame, response,
                       completed, requests, adminOps, lastCall, loader>>

NextEnsure ==
    \E s \in EnsureSlugs, db_password \in EnsurePasswords, failAt \in FailPoints :
        apply_create_postgresql_database(s \o Suffix_compliance_db, s \o Suffix_user,
                                         db_password, failAt)

SpecEnsure == InitEnsure /\ [][NextEnsure]_vars

(***************************************************************************)
(* internal_views.py: the credentials endpoint for the collaborating       *)
(* service, called over the directories of the bulk load.  The environment *)
(* sets INTERNAL_REGISTER_DB_TOKEN (settings.py l.145), the token this     *)
(* service sends in X-Internal-Token (tenant_utils.py l.237, l.274).       *)
(***************************************************************************)
\* request.headers.get('X-Internal-Token') of a request without the header,
\* and the setting's default
NoToken == "None"

\* values the environment gives INTERNAL_REGISTER_DB_TOKEN
ConfiguredTokens == { NoToken, "service2-secret", "deployment-token" }

\* X-Internal-Token of a request
RequestTokens == { NoToken, "service2-secret", "deployment-token", "guess" }

NoCredentials == [http |-> 0, credentials |-> {}]

\* InternalTenantCredentialsView.get (l.19-42) with
\* get_tenant_database_credentials (tenant_utils.py l.292-309) inlined; a
\* password that does not decrypt raises past both
InternalTenantCredentialsView_get(internal_token, dir, tenant_slug) ==
    LET tenant_info == get_tenant_database_credentials(dir, tenant_slug)
        pw == decrypt_password(tenant_info)
    IN  IF internal_token # "service2-secret"
        THEN [NoCredentials EXCEPT !.http = 401]
        ELSE IF tenant_info = NoTenant
        THEN [NoCredentials EXCEPT !.http = 404]
        ELSE IF ~pw.ok
        THEN [NoCredentials EXCEPT !.http = 500]
        ELSE [http |-> 200,
              credentials |->
                 {[database_name |-> tenant_info.database_name,
                   database_user |-> tenant_info.database_user,
                   database_password |-> pw.value,
                   database_host |-> tenant_info.database_host,
                   database_port |-> tenant_info.database_port,
                   connection_name |-> ConnectionName(tenant_slug)]}]

\* GET /internal/tenants/{tenant_slug}/credentials/ in a deployment whose
\* INTERNAL_REGISTER_DB_TOKEN is `setting`
internal_credentials(setting, internal_token, tenant_slug) ==
    /\ applied' = [fn |-> "InternalTenantCredentialsView.get",
                   input |-> [INTERNAL_REGISTER_DB_TOKEN |-> setting,
                              internal_token |-> internal_token,
                              tenant_slug |-> tenant_slug],
                   output |-> InternalTenantCredentialsView_get(
                                  internal_token, directory, tenant_slug)]
    /\ UNCHANGED <<main, connections, loader>>

NextInternal ==
    \E setting \in ConfiguredTokens, internal_token \in RequestTokens,
       i \in DOMAIN LoadSlugs :
        internal_credentials(setting, internal_token, LoadSlugs[i])

SpecInternal == InitLoad /\ [][NextInternal]_vars

(***************************************************************************)
(* models.py: encrypt_password and decrypt_password on their own, over     *)
(* passwords of up to CodecMaxLen characters and over columns sealed by a  *)
(* deployment with this or another SECRET_KEY.                             *)
(***************************************************************************)
CodecMaxLen == 3
CodecAlphabet == {"a", "Z", "7", "!"}
CodecPasswords == UNION { [1..n -> CodecAlphabet] : n \in 0..CodecMaxLen }

\* values of settings.SECRET_KEY in the deployment that sealed a column
CodecSecrets == {SECRET_KEY, EARLIER_SECRET_KEY, ""}

\* l.83-91 and then l.93-101 on the same instance
apply_encrypt_password(raw_password) ==
    LET tenant_info == [NoTenant EXCEPT !.database_password = encrypt_password(raw_password)]
    IN  /\ applied' = [fn |-> "encrypt_password", secret |-> SECRET_KEY,
                       raw_password |-> raw_password,
                       database_password |-> tenant_info.database_password,
                       decrypted |-> decrypt_password(tenant_info)]
        /\ UNCHANGED <<main, connections, loader>>

\* l.93-101 on an instance whose column was sealed under `secret`
apply_decrypt_password(secret, raw_password) ==
    LET tenant_info == [NoTenant EXCEPT !.database_password =
                           FernetEncrypt(DeriveKey(secret), raw_password)]
    IN  /\ applied' = [fn |-> "decrypt_password", secret |-> secret,
                       raw_password |-> raw_password,
                       database_password |-> tenant_info.database_password,
                       decrypted |-> decrypt_password(tenant_info)]
        /\ UNCHANGED <<main, connections, loader>>

NextCodec ==
    \/ \E raw_password \in CodecPasswords : apply_encrypt_password(raw_password)
    \/ \E secret \in CodecSecrets, raw_password \in CodecPasswords :
         apply_decrypt_password(secret, raw_password)

SpecCodec == Init /\ [][NextCodec]_vars

(***************************************************************************)
(* tenant_utils.py: generate_database_credentials on its own, called       *)
(* again and again for slugs that passed validate_and_normalize_slug.      *)
(***************************************************************************)
NameRawInputs ==
    { Str(Acme), Str(Bolt), Str(Core),
      Str(<<" ","A","c","m","e","\n">>),
      Str(<<"a","c","m">>),
      Str(<<"a","c","m","e","-","1">>),
      Str(<<"a","c","m","e","-","u","s","e","r">>),
      Str(<<"1","2","3">>),
      Str(<<"a","_","b","c">>),
      Str(<<"r","o","o","t">>),
      Str([i \in 1..SlugMaxLen |-> "a"]),
      Str([i \in 1..SlugMaxLen |-> IF i = SlugMaxLen THEN "b" ELSE "a"]) }

NameValidated == [raw \in NameRawInputs |-> validate_and_normalize_slug(raw)]

\* the slugs create_tenant hands to register_tenant_database
NameSlugs == { NameValidated[raw].slug : raw \in {x \in NameRawInputs : NameValidated[x].ok} }

\* no call of the generator has been made
NoNames == [tenant_slug |-> << >>, db_name |-> << >>, db_user |-> << >>,
            connection_name |-> << >>]

\* l.21-27 called on its own, and l.127 for the same slug; `previous` is
\* what the call before it was given and returned
apply_generate_database_credentials(tenant_slug, password) ==
    LET creds == generate_database_credentials(tenant_slug, password)
    IN  /\ applied' = [fn |-> "generate_database_credentials",
                       tenant_slug |-> tenant_slug, password |-> creds.password,
                       db_name |-> creds.db_name, db_user |-> creds.db_user,
                       connection_name |-> ConnectionName(tenant_slug),
                       previous |-> IF applied.fn = "generate_database_credentials"
                                    THEN [n \in DOMAIN NoNames |-> applied[n]]
                                    ELSE NoNames]
        /\ UNCHANGED <<main, connections, loader>>

NextNames ==
    \E tenant_slug \in NameSlugs, password \in EnsurePasswords :
        apply_generate_database_credentials(tenant_slug, password)

SpecNames == Init /\ [][NextNames]_vars

(***************************************************************************)
(* The workflow with the scheduling of the request threads: a request is   *)
(* served by a thread of its own that makes one blocking call after the    *)
(* other, and every call to the data store or to service 1 returns, fails  *)
(* or times out (timeout=30, timeout=60), so a thread that can take its    *)
(* next step takes it.                                                     *)
(***************************************************************************)
Serve(w) ==
    \/ reuse_alias(w) \/ reuse_migrate(w) \/ reuse_templates(w)
    \/ reg_save(w) \/ reg_provision(w) \/ reg_alias(w)
    \/ reg_migrate(w) \/ reg_templates(w) \/ reg_final(w)

\* requests for one tenant, and update_status calls for it
NextFair ==
    \/ \E w \in Workers :
         create_tenant(w, Str(Acme), [isNone |-> FALSE, str |-> "Acme Inc"])
    \/ \E w \in Workers : Serve(w)
    \/ update_status(Acme, "SUSPENDED")

SpecFair == Init /\ [][NextFair]_vars /\ \A w \in Workers : WF_vars(Serve(w))

(***************************************************************************)
(* Properties                                                              *)
(***************************************************************************)
\* the request that returned in the last step went past the request validation
Processed == response.kind \in {"created", "reused", "failed", "server_error"}

ResponseRows == RowsBySlug(directory, response.tenant_slug)

RemoteCalls == MigrateCalls \cup TemplatesCalls

\* C1: a run of register_tenant_database that reaches the final-status step
\* persists ACTIVE iff the postgres_provision, django_alias, migrations and
\* templates entries of its ledger are all ok, and PROVISIONING_FAILED
\* otherwise.
C1_FinalStatusIffAllStepsOk ==
    [][\A w \in Workers :
         (pc[w] = "reg_final" /\ pc'[w] = "idle") =>
            LET steps == frame[w].steps
                four == /\ steps.postgres_provision.set /\ steps.postgres_provision.ok
                        /\ steps.django_alias.set /\ steps.django_alias.ok
                        /\ steps.migrations.set /\ steps.migrations.ok
                        /\ steps.templates.set /\ steps.templates.ok
            IN  /\ \E r \in directory' : r.id = frame[w].tenant_info.id
                /\ \A r \in directory' :
                     r.id = frame[w].tenant_info.id =>
                        /\ four => r.status = "ACTIVE"
                        /\ ~four => r.status = "PROVISIONING_FAILED"]_vars

C1_Witness ==
    /\ response.kind = "created"
    /\ response.steps.migrations.ok
    /\ ~response.steps.templates.ok
    /\ \E r \in ResponseRows : r.status = "PROVISIONING_FAILED"

\* C2: a tenant record has status ACTIVE only if database provisioning,
\* registry wiring, migrations and template seeding all succeeded for it.
C2_ActiveOnlyIfProvisioned ==
    \A r \in directory :
        r.status = "ACTIVE" =>
            /\ r.database_name \in DOMAIN pg_database
            /\ <<r.database_name, r.database_user>> \in pg_grants
            /\ ConnectionName(r.tenant_slug) \in DOMAIN connections
            /\ r.tenant_slug \in migrated
            /\ r.tenant_slug \in seeded

\* C3: when an error is thrown during credential generation, directory row
\* creation or database provisioning, the row of the slug is kept and marked
\* PROVISIONING_FAILED, the ledger holds the error, the error reaches the
\* caller, and the attempt makes no remote call.
C3_FatalStepMarksRowFailed ==
    (response.kind = "failed" /\ ~response.steps.django_alias.set) =>
        /\ ResponseRows # {}
        /\ \A r \in ResponseRows : r.status = "PROVISIONING_FAILED"
        /\ response.steps.error # "None"
        /\ Range(response.calls) \cap RemoteCalls = {}

\* C4: every outcome of a create_tenant request that passed the request
\* validation hands the caller the step ledger and the tenant record.
C4_LedgerInEveryOutcome ==
    Processed => (response.has_steps /\ response.has_tenant)

\* C5: when the row and the database were created and the migration call
\* fails (non-200, network error, timeout), the attempt does not raise, the
\* template call is still made, the record ends PROVISIONING_FAILED, and the
\* ledger has postgres_provision.ok = true and migrations.ok = false.
MigrateFailed(calls) ==
    /\ "provision" \in Range(calls)
    /\ "migrate_failed" \in Range(calls)

C5_MigrationFailureDegrades ==
    /\ \A w \in Workers :
         MigrateFailed(frame[w].calls) =>
            /\ pc[w] \in {"reg_templates", "reg_final"}
            /\ pc[w] = "reg_final" => Range(frame[w].calls) \cap TemplatesCalls # {}
    /\ MigrateFailed(response.calls) =>
            /\ response.kind = "created"
            /\ Range(response.calls) \cap TemplatesCalls # {}
            /\ response.tenant_status = "PROVISIONING_FAILED"
            /\ \A r \in ResponseRows : r.status = "PROVISIONING_FAILED"
            /\ ResponseRows # {}
            /\ response.has_steps
            /\ response.steps.postgres_provision.set
            /\ response.steps.postgres_provision.ok
            /\ response.steps.migrations.set
            /\ ~response.steps.migrations.ok

C5_Witness ==
    /\ MigrateFailed(response.calls)
    /\ "templates_200_success" \in Range(response.calls)
    /\ response.tenant_slug \in seeded

StepFlags(steps) ==
    steps.generate_credentials.flags \cup steps.directory_row.flags
    \cup steps.postgres_provision.flags \cup steps.django_alias.flags
    \cup steps.migrations.flags \cup steps.templates.flags

\* C6: of two create_tenant calls in sequence for one slug, the first
\* provisions from scratch (no reused/skipped flag in its ledger) and the
\* second takes the reuse path: no provisioner call, no new credentials, a
\* ledger with directory_row.reused and postgres_provision.skipped, and
\* exactly one record of the slug in the directory.
C6_SecondCallReuses ==
    /\ (Processed /\ requests = 1) =>
            /\ response.kind \in {"created", "failed"}
            /\ "credentials" \in Range(response.calls)
            /\ StepFlags(response.steps) = {}
    /\ (Processed /\ response.after_completed) =>
            /\ response.kind = "reused"
            /\ response.has_steps
            /\ "reused" \in response.steps.directory_row.flags
            /\ "skipped" \in response.steps.postgres_provision.flags
            /\ "provision" \notin Range(response.calls)
            /\ "credentials" \notin Range(response.calls)
            /\ Cardinality(ResponseRows) = 1

C6_Witness ==
    /\ response.kind = "reused"
    /\ response.after_completed
    /\ requests = 2
    /\ adminOps = 0

\* C7: the directory holds at most one record per tenant_slug, inactive
\* records included; of concurrent creations of one slug one is saved.
C7_OneRecordPerSlug ==
    /\ \A r1 \in directory, r2 \in directory :
         r1.tenant_slug = r2.tenant_slug => r1 = r2
    /\ (Processed /\ "directory_row" \in Range(response.calls)) =>
         Cardinality(ResponseRows) = 1

\* a request lost the race for the slug: it went to save its row and the
\* row of the other request was there
LostRace ==
    /\ response.kind \notin {"none", "validation", "required"}
    /\ "directory_row" \in Range(response.calls)
    /\ ~response.steps.directory_row.set

C7_Witness ==
    /\ LostRace
    /\ Cardinality(ResponseRows) = 1

\* C8: the request that loses the unique-slug race completes through the
\* reuse path (registry re-wired, migrations and templates re-attempted,
\* success response) and does not end as a failure.
C8_RaceLoserReuses ==
    LostRace =>
        /\ response.success
        /\ "alias" \in Range(response.calls)
        /\ Range(response.calls) \cap MigrateCalls # {}
        /\ Range(response.calls) \cap TemplatesCalls # {}

\* the slugs the claim C9 speaks of
C9_Rejectable(raw_slug) ==
    \/ raw_slug.isNone
    \/ LET slug == lower(strip(raw_slug.str))
       IN  \/ \E i \in DOMAIN slug : slug[i] \in {"_", " "}
           \/ slug \in RESERVED_TENANT_SLUGS
           \/ ~SLUG_REGEX(slug)

C9_RejectableInputs ==
    {data \in CreateInputs : C9_Rejectable(data.tenant_slug)}

\* C9: create_tenant with a slug that is missing, holds an underscore or a
\* space after trim and lowercase, is reserved, or does not match
\* [a-z0-9-]{3,50} is rejected with a validation error and leaves the
\* directory, the databases and roles, the registry and the remote service
\* untouched.
C9_BadSlugRejectedWithoutEffect ==
    [][\A w \in Workers, data \in C9_RejectableInputs :
         create_tenant(w, data.tenant_slug, data.company_name) =>
               /\ response'.kind = "validation"
               /\ response'.http = 400
               /\ pc' = pc
               /\ UNCHANGED <<directory, pg_roles, pg_database, pg_grants,
                              connections, migrated, seeded>>]_vars

C9_Witness ==
    /\ response.kind = "validation"
    /\ response.http = 400
    /\ directory # {}

\* C10: after an attempt for a new slug s in which provisioning, wiring,
\* migrations and template seeding all succeed, the record is ACTIVE with
\* database_name "s_compliance_db" and the registry holds "s_compliance_db".
C10_Name(s) == s \o <<"_","c","o","m","p","l","i","a","n","c","e","_","d","b">>

C10_SuccessfulProvisioning ==
    (/\ response.kind \in {"created", "failed"}
     /\ "provision" \in Range(response.calls)
     /\ response.steps.postgres_provision.set
     /\ "alias" \in Range(response.calls)
     /\ "migrate_200" \in Range(response.calls)
     /\ "templates_200_success" \in Range(response.calls)) =>
        /\ response.kind = "created"
        /\ response.tenant_status = "ACTIVE"
        /\ response.database_name = C10_Name(response.tenant_slug)
        /\ C10_Name(response.tenant_slug) \in DOMAIN connections
        /\ \E r \in directory :
             /\ r.tenant_slug = response.tenant_slug
             /\ r.status = "ACTIVE"
             /\ r.database_name = C10_Name(r.tenant_slug)

C10_Witness ==
    /\ response.kind = "created"
    /\ response.tenant_status = "ACTIVE"
    /\ response.tenant_slug = Acme
    /\ C10_Name(Acme) \in DOMAIN connections

\* the slug has no active record in the directory
NoActiveRecord(slug) == ~\E r \in directory : r.tenant_slug = slug /\ r.is_active

\* C11: register_tenant_database_alias_on_demand(slug) fails with the
\* tenant-not-found error whenever the slug has no active record, also after
\* the tenant was registered and then soft-deleted, and the failing call
\* leaves the registry as it was.
C11_OnDemandNotFound ==
    [][\A slug \in PkInputs :
         (register_tenant_database_alias_on_demand(slug) /\ NoActiveRecord(slug)) =>
            /\ lastCall'.result = "not_found"
            /\ lastCall'.returned = << >>
            /\ connections' = connections]_vars

C12_Name(s) == s \o <<"_","c","o","m","p","l","i","a","n","c","e","_","d","b">>

\* the password of the role as the record holds it, decrypted
C12_Coordinates(r) ==
    [NAME |-> r.database_name, USER |-> r.database_user,
     PASSWORD |-> r.database_password.sealed,
     HOST |-> r.database_host, PORT |-> r.database_port]

\* C12: a call of register_tenant_database_alias_on_demand(slug) that
\* returns, returns "{slug}_compliance_db"; when that key is in the registry
\* the registry is left as it is and the directory is not queried; when it
\* is not and the slug has an active record, an entry is inserted under the
\* key whose name, user, password, host and port are those of the record,
\* the password decrypted, and no other entry changes.
C12_OnDemandRegisters ==
    [][\A slug \in PkInputs :
         register_tenant_database_alias_on_demand(slug) =>
            /\ lastCall'.http = 200 => lastCall'.returned = C12_Name(slug)
            /\ C12_Name(slug) \in DOMAIN connections =>
                  /\ connections' = connections
                  /\ lastCall'.http = 200
                  /\ ~lastCall'.lookup
            /\ (C12_Name(slug) \notin DOMAIN connections /\ ~NoActiveRecord(slug)) =>
                  /\ lastCall'.http = 200
                  /\ DOMAIN connections' = DOMAIN connections \cup {C12_Name(slug)}
                  /\ \A k \in DOMAIN connections : connections'[k] = connections[k]
                  /\ \E r \in directory :
                        /\ r.tenant_slug = slug /\ r.is_active
                        /\ r.database_password.fernet = DeriveKey(SECRET_KEY)
                        /\ connections'[C12_Name(slug)] = C12_Coordinates(r)]_vars

C12_Witness ==
    /\ lastCall.op = "on_demand"
    /\ lastCall.result = "registered"
    /\ lastCall.returned = C12_Name(Acme)
    /\ \E r \in directory : connections[C12_Name(Acme)] = C12_Coordinates(r)

\* the active records of the directory that decrypt under SECRET_KEY
C13_Loadable == {r \in directory : r.is_active /\ decrypt_password(r).ok}

\* C13: load_all_tenant_databases never raises; when it returns, the loop has
\* gone over every active record, every active record that registers is in
\* the registry under "{slug}_compliance_db" with its own coordinates, and
\* the records that failed are the ones that do not decrypt.
C13_LoadAllNeverRaises ==
    /\ ~loader.raised
    /\ loader.pc = "done" =>
          /\ loader.queryset = << >>
          /\ loader.loaded \cup loader.failed =
                {r.tenant_slug : r \in {q \in directory : q.is_active}}
          /\ loader.loaded = {r.tenant_slug : r \in C13_Loadable}
          /\ \A r \in C13_Loadable :
                /\ C12_Name(r.tenant_slug) \in DOMAIN connections
                /\ connections[C12_Name(r.tenant_slug)] = C12_Coordinates(r)

C13_Witness ==
    /\ loader.pc = "done"
    /\ loader.failed = {Acme}
    /\ loader.loaded = {Bolt, Core}
    /\ DOMAIN connections = {C12_Name(Bolt), C12_Name(Core)}

\* C14: neither remote operation raises: run_tenant_migrations_via_service1
\* returns a boolean that is true iff the remote answered HTTP 200 (false for
\* every other status and for a network failure or timeout);
\* copy_framework_templates_via_service1 returns a dict: the parsed body of an
\* HTTP 200 answer, and the empty dict for every other status and for every
\* exception (network failure, timeout, a body that does not parse to a dict).
C14_RemoteNeverRaises ==
    /\ applied.fn = "run_tenant_migrations_via_service1" =>
          /\ applied.output \in BOOLEAN
          /\ applied.output <=> (applied.input.kind = "http" /\ applied.input.status = 200)
    /\ applied.fn = "copy_framework_templates_via_service1" =>
          /\ applied.output.type = "dict"
          /\ (applied.input.kind = "http" /\ applied.input.status = 200
                 /\ applied.input.body.type = "dict") =>
                applied.output = applied.input.body
          /\ (applied.input.kind # "http" \/ applied.input.status # 200
                 \/ applied.input.body.type # "dict") =>
                applied.output = [type |-> "dict", keys |-> {}, success |-> FALSE,
                                  frameworks_copied |-> 0]

C14_Witness ==
    /\ applied.fn = "copy_framework_templates_via_service1"
    /\ applied.input.kind = "http"
    /\ applied.input.status = 503
    /\ applied.input.body.keys # {}
    /\ applied.output.keys = {}

\* C15: from every state of the data store, a call of
\* create_postgresql_database(db_name, db_user, db_password) that succeeds
\* leaves the role with the given password, the database owned by the role
\* and the privileges granted; no call, failed or not, drops a role or a
\* database; and a second call with the same arguments leaves the data store
\* as the first one left it.
C15_EnsureIdempotent ==
    applied.fn = "create_postgresql_database" =>
        LET db_name == applied.args[1]
            db_user == applied.args[2]
            db_password == applied.args[3]
        IN  /\ ~applied.raised =>
                  /\ db_user \in DOMAIN pg_roles
                  /\ pg_roles[db_user] = db_password
                  /\ db_name \in DOMAIN pg_database
                  /\ pg_database[db_name] = db_user
                  /\ <<db_name, db_user>> \in pg_grants
            /\ DOMAIN applied.before[1] \subseteq DOMAIN pg_roles
            /\ DOMAIN applied.before[2] \subseteq DOMAIN pg_database
            /\ applied.repeat =>
                  <<pg_roles, pg_database, pg_grants>> = applied.before

\* a second successful call for one tenant while the other tenant's role exists
C15_Witness ==
    /\ applied.fn = "create_postgresql_database"
    /\ applied.repeat
    /\ ~applied.raised
    /\ applied.args = <<Acme \o Suffix_compliance_db, Acme \o Suffix_user, 2>>
    /\ (Bolt \o Suffix_user) \in DOMAIN pg_roles

\* C16: every record of the directory holds a password field that is not
\* empty and is the Fernet token, under the key derived from SECRET_KEY, of
\* the password generated for it, never the password itself; so it is for
\* every status, the statuses other than PROVISIONING included.
C16_PasswordIsCiphertext ==
    \A r \in directory :
        /\ r.database_password # [fernet |-> <<"none", "none">>, sealed |-> 0]
        /\ r.database_password.fernet = <<"sha256", "django-insecure-user-mgmt-service-key">>
        /\ r.database_password.sealed > 0
        /\ \A w \in Workers :
              (frame[w].db_password # 0 /\ frame[w].tenant_info.id = r.id) =>
                 /\ r.database_password.sealed = frame[w].db_password
                 /\ decrypt_password(r).ok
                 /\ decrypt_password(r).value = frame[w].db_password

C16_Witness ==
    \E r \in directory :
        /\ r.status = "ACTIVE"
        /\ r.database_user \in DOMAIN pg_roles
        /\ decrypt_password(r).value = pg_roles[r.database_user]

\* what the directory, the data store and the registry hold for slug t
C17_Holdings(t, dir, roles, dbs, grants, conns) ==
    LET user == t \o <<"_","u","s","e","r">>
        name == C12_Name(t)
    IN  [rows     |-> {r \in dir : r.tenant_slug = t},
         role     |-> IF user \in DOMAIN roles THEN {roles[user]} ELSE {},
         database |-> IF name \in DOMAIN dbs THEN {dbs[name]} ELSE {},
         grants   |-> {g \in grants : g[1] = name \/ g[2] = user},
         entry    |-> IF name \in DOMAIN conns THEN {conns[name]} ELSE {}]

\* C17: in every interleaving of create_tenant requests for two slugs, the
\* step of a request that wires the registry inserts the entry under the
\* request's own "{slug}_compliance_db", with the request's own database and
\* user, and no step of a request for one slug changes the directory
\* record, the role, the database, the grants or the registry entry of the
\* other slug.
C17_DifferentSlugsIndependent ==
    [][\A w \in Workers :
         (pc'[w] # pc[w] \/ frame'[w] # frame[w]) =>
            LET s == IF pc[w] = "idle" THEN frame'[w].tenant_slug
                     ELSE frame[w].tenant_slug
            IN  /\ (pc[w] \in {"reg_alias", "reuse_alias"} /\ pc'[w] # "idle") =>
                      /\ C12_Name(s) \in DOMAIN connections'
                      /\ connections'[C12_Name(s)].NAME = C12_Name(s)
                      /\ connections'[C12_Name(s)].USER = s \o <<"_","u","s","e","r">>
                /\ \A t \in {Acme, Bolt} \ {s} :
                      C17_Holdings(t, directory', pg_roles', pg_database',
                                   pg_grants', connections')
                      = C17_Holdings(t, directory, pg_roles, pg_database,
                                     pg_grants, connections)]_vars

\* both tenants are in the registry while a request for each is in progress
C17_Witness ==
    /\ DOMAIN connections = {C12_Name(Acme), C12_Name(Bolt)}
    /\ {frame[w].tenant_slug : w \in Workers} = {Acme, Bolt}
    /\ \A w \in Workers : pc[w] \in {"reg_migrate", "reg_templates", "reg_final"}

\* C18: no step takes a key out of the connection registry (not
\* delete_tenant, update_status or a failed provisioning), and a step in
\* which add_tenant_database_to_django registers a tenant leaves under the
\* tenant's key the coordinates of its record, the password decrypted.
C18_RegistryNeverShrinks ==
    [][/\ DOMAIN connections \subseteq DOMAIN connections'
       /\ \A w \in Workers :
             (pc[w] \in {"reg_alias", "reuse_alias"} /\ pc'[w] \in {"reg_migrate", "reuse_migrate"}) =>
                /\ \A k \in DOMAIN connections \ {C12_Name(frame[w].tenant_slug)} :
                      connections'[k] = connections[k]
                /\ \E r \in directory :
                      /\ r.tenant_slug = frame[w].tenant_slug
                      /\ r.database_password.fernet = DeriveKey(SECRET_KEY)
                      /\ connections'[C12_Name(r.tenant_slug)] = C12_Coordinates(r)]_vars

\* the tenant was soft-deleted and its entry is in the registry
C18_Witness ==
    /\ lastCall.op = "delete_tenant"
    /\ lastCall.http = 200
    /\ C12_Name(lastCall.pk) \in DOMAIN connections
    /\ \E r \in directory : r.tenant_slug = lastCall.pk /\ ~r.is_active

\* C19: the internal credentials endpoint answers with a tenant's decrypted
\* credentials only when the request's X-Internal-Token equals the
\* configured INTERNAL_REGISTER_DB_TOKEN, the token this service sends to
\* the collaborating service; every other token gets 401 with no credential,
\* and a slug without an active record gets 404.
C19_InternalTokenGate ==
    applied.fn = "InternalTenantCredentialsView.get" =>
        LET in == applied.input
            out == applied.output
        IN  /\ out.credentials # {} =>
                  in.internal_token = in.INTERNAL_REGISTER_DB_TOKEN
            /\ in.internal_token # in.INTERNAL_REGISTER_DB_TOKEN =>
                  (out.http = 401 /\ out.credentials = {})
            /\ (/\ in.internal_token = in.INTERNAL_REGISTER_DB_TOKEN
                 /\ ~\E r \in directory : r.tenant_slug = in.tenant_slug /\ r.is_active) =>
                  out.http = 404

\* the steps of one attempt of register_tenant_database, in order
C20_Order == <<"credentials", "directory_row", "provision", "alias",
               "migrate", "templates", "final_status">>

\* a call as C20_Order names it
C20_StepOf(call) ==
    IF call \in {"migrate_200", "migrate_failed"} THEN "migrate"
    ELSE IF call \in {"templates_200_success", "templates_200", "templates_failed"}
         THEN "templates"
    ELSE call

\* the calls are the first Len(calls) steps of the order
C20_InOrder(calls) ==
    /\ Len(calls) <= Len(C20_Order)
    /\ \A i \in DOMAIN calls : C20_StepOf(calls[i]) = C20_Order[i]

\* where a request stands while it runs register_tenant_database
C20_Steps == {"reg_save", "reg_provision", "reg_alias", "reg_migrate",
              "reg_templates", "reg_final"}

\* C20: in one attempt of register_tenant_database the steps come in one
\* order: the row is saved with status PROVISIONING before the provisioner
\* runs; the registry entry is written only after the provisioner
\* succeeded; the migration call is made only when the registry entry is
\* there; the template call follows the migration call whatever it came to;
\* the final status is written last.
C20_StepOrder ==
    [][\A w \in Workers :
         LET f == frame[w]
             name == C12_Name(f.tenant_slug)
             row_saved == \E r \in directory : r.id = f.tenant_info.id
         IN  /\ (pc[w] = "reg_save" /\ pc'[w] = "reg_provision") =>
                   /\ \E r \in directory' \ directory :
                         r.tenant_slug = f.tenant_slug /\ r.status = "PROVISIONING"
                   /\ UNCHANGED <<pg_roles, pg_database, pg_grants, connections,
                                  migrated, seeded>>
             /\ (pc[w] = "reg_provision" /\ pc'[w] # pc[w]) =>
                   /\ row_saved
                   /\ f.calls = <<"credentials", "directory_row">>
                   /\ UNCHANGED <<connections, migrated, seeded>>
             /\ (pc[w] = "reg_alias" /\ pc'[w] # pc[w]) =>
                   /\ f.steps.postgres_provision.set /\ f.steps.postgres_provision.ok
                   /\ f.tenant_info.database_name \in DOMAIN pg_database
                   /\ f.calls = <<"credentials", "directory_row", "provision">>
                   /\ name \in DOMAIN connections'
                   /\ UNCHANGED <<migrated, seeded>>
             /\ (pc[w] = "reg_migrate" /\ pc'[w] # pc[w]) =>
                   /\ name \in DOMAIN connections
                   /\ f.steps.django_alias.set /\ f.steps.django_alias.ok
                   /\ Len(f.calls) = 4
                   /\ pc'[w] = "reg_templates"
                   /\ UNCHANGED seeded
             /\ (pc[w] = "reg_templates" /\ pc'[w] # pc[w]) =>
                   /\ f.steps.migrations.set
                   /\ Len(f.calls) = 5
                   /\ pc'[w] = "reg_final"
             /\ (pc[w] = "reg_final" /\ pc'[w] # pc[w]) =>
                   /\ f.steps.templates.set
                   /\ Len(f.calls) = 6
                   /\ response'.calls[7] = "final_status"
                   /\ UNCHANGED <<pg_roles, pg_database, pg_grants, connections,
                                  migrated, seeded>>
             /\ pc[w] \in C20_Steps =>
                   /\ C20_InOrder(f.calls)
                   /\ pc'[w] = "idle" => C20_InOrder(response'.calls)
                   /\ pc'[w] # "idle" => C20_InOrder(frame'[w].calls)]_vars

\* an attempt that made the template call after a migration call that failed
C20_Witness ==
    /\ response.kind = "created"
    /\ response.calls = <<"credentials", "directory_row", "provision", "alias",
                          "migrate_failed", "templates_200_success", "final_status">>

(***************************************************************************)
(* C21: once a tenant record is created, no step of the service (the reuse  *)
(* path of create_tenant, update_status, delete_tenant, on-demand          *)
(* registration, nor any step of a provisioning attempt) changes its id,   *)
(* tenant_slug, database_name, database_user or stored encrypted password: *)
(* every row before a step is found after it with these five columns as    *)
(* they were.                                                              *)
(***************************************************************************)
C21_Identity(r) ==
    <<r.id, r.tenant_slug, r.database_name, r.database_user, r.database_password>>

C21_IdentityKept ==
    [][\A r \in directory :
          \E q \in directory' : C21_Identity(q) = C21_Identity(r)]_vars

\* update_status has rewritten a record while a later create_tenant for the
\* slug is in its reuse path
C21_Witness ==
    /\ \E r \in directory : r.status = "SUSPENDED"
    /\ \E w \in Workers : pc[w] = "reuse_migrate"

(***************************************************************************)
(* C22: in the reuse path of create_tenant the templates entry of the      *)
(* ledger is ok exactly when the remote answered HTTP 200 with a body      *)
(* whose success flag is true, which is the criterion of the fresh         *)
(* provisioning path: in every response that carries a ledger, reused or   *)
(* created, templates.ok holds iff the templates call of the request was   *)
(* answered 200 with success true.                                         *)
(***************************************************************************)
C22_TemplatesAnswer(resp) == resp.calls[Len(resp.calls) - (IF resp.kind = "created" THEN 1 ELSE 0)]

C22_ReuseTemplatesCriterion ==
    response.kind \in {"reused", "created"} =>
        (response.steps.templates.ok
            <=> C22_TemplatesAnswer(response) = "templates_200_success")

(***************************************************************************)
(* C23: decrypt_password gives back the password encrypt_password sealed   *)
(* when both run under the same SECRET_KEY, and on a column sealed under a *)
(* key derived from another secret it fails with a decryption error and    *)
(* returns no value.                                                       *)
(***************************************************************************)
C23_RoundTrip ==
    /\ applied.fn = "encrypt_password" =>
         /\ applied.decrypted.ok
         /\ applied.decrypted.value = applied.raw_password
    /\ applied.fn = "decrypt_password" =>
         IF applied.secret = SECRET_KEY
         THEN /\ applied.decrypted.ok
              /\ applied.decrypted.value = applied.raw_password
         ELSE ~applied.decrypted.ok

\* a password of full length has gone through encrypt_password and back
C23_Witness ==
    /\ applied.fn = "encrypt_password"
    /\ Len(applied.raw_password) = CodecMaxLen
    /\ applied.decrypted.ok

\* a column sealed under the earlier secret was refused
C23_WitnessOtherSecret ==
    /\ applied.fn = "decrypt_password"
    /\ applied.secret = EARLIER_SECRET_KEY
    /\ ~applied.decrypted.ok

(***************************************************************************)
(* C24: for every valid slug s the credential generator returns            *)
(* database_name "s_compliance_db" and database_user "s_user", the same    *)
(* names on every call for s, and the database name is the registry        *)
(* connection name of s; two calls for distinct slugs share no database    *)
(* name, no user and no registry key.                                      *)
(***************************************************************************)
C24_DbName(s) == s \o <<"_","c","o","m","p","l","i","a","n","c","e","_","d","b">>
C24_DbUser(s) == s \o <<"_","u","s","e","r">>

C24_NamesDerivedFromSlug ==
    applied.fn = "generate_database_credentials" =>
        /\ applied.db_name = C24_DbName(applied.tenant_slug)
        /\ applied.db_user = C24_DbUser(applied.tenant_slug)
        /\ applied.connection_name = applied.db_name
        /\ LET p == applied.previous
           IN  p # NoNames =>
                 IF p.tenant_slug = applied.tenant_slug
                 THEN /\ p.db_name = applied.db_name
                      /\ p.db_user = applied.db_user
                      /\ p.connection_name = applied.connection_name
                 ELSE /\ p.db_name # applied.db_name
                      /\ p.db_user # applied.db_user
                      /\ p.connection_name # applied.connection_name

\* two calls, one for a slug of full length and one for the slug that
\* differs from it in the last character
C24_Witness ==
    /\ applied.fn = "generate_database_credentials"
    /\ Len(applied.tenant_slug) = SlugMaxLen
    /\ applied.previous # NoNames
    /\ Len(applied.previous.tenant_slug) = SlugMaxLen
    /\ applied.previous.tenant_slug # applied.tenant_slug

(***************************************************************************)
(* C25: every provisioning attempt that has saved its directory row        *)
(* eventually finishes (returns or raises), given that each call to the    *)
(* data store and to service 1 returns, fails or times out; and the step   *)
(* in which it finishes leaves its record ACTIVE or PROVISIONING_FAILED,   *)
(* so no attempt that finished left its record in PROVISIONING.            *)
(***************************************************************************)
\* where a request stands between the save of its row and its end
C25_Saved == {"reg_provision", "reg_alias", "reg_migrate", "reg_templates", "reg_final"}

C25_Finishes ==
    \A w \in Workers : (pc[w] \in C25_Saved) ~> (pc[w] = "idle")

C25_FinishedStatus ==
    [][\A w \in Workers :
          (pc[w] \in C25_Saved /\ pc'[w] = "idle") =>
              \E r \in directory' :
                  /\ r.id = frame[w].tenant_info.id
                  /\ r.status \in {"ACTIVE", "PROVISIONING_FAILED"}]_vars

C25_SavedAttemptFinishes == C25_Finishes /\ C25_FinishedStatus

\* an attempt whose provisioning raised has ended, its record marked failed
C25_Witness ==
    /\ response.kind = "failed"
    /\ response.steps.directory_row.ok
    /\ response.steps.error = "ProvisioningError"
    /\ \E r \in directory : r.status = "PROVISIONING_FAILED"

(***************************************************************************)
(* C26: the reuse path of create_tenant never writes the directory record  *)
(* and never calls the database provisioner: each step of a request that   *)
(* found a record for its slug leaves every row (status included) and the  *)
(* roles, databases and grants of the data store as they were, also when   *)
(* the migrations and templates it re-attempts both succeed.  So a record  *)
(* left PROVISIONING_FAILED or PROVISIONING keeps that status, and a       *)
(* database whose provisioning failed is not created, by such calls.       *)
(***************************************************************************)
C26_ReuseSteps == {"reuse_alias", "reuse_migrate", "reuse_templates"}

C26_ReuseWritesNothing ==
    [][\A w \in Workers :
          (pc[w] \in C26_ReuseSteps /\ pc'[w] # pc[w]) =>
              /\ directory' = directory
              /\ pg_roles' = pg_roles
              /\ pg_database' = pg_database
              /\ pg_grants' = pg_grants]_vars

\* a later create_tenant whose migrations and templates succeeded has
\* returned, for a record marked failed whose database was never created
C26_Witness ==
    /\ response.kind = "reused"
    /\ response.steps.migrations.ok
    /\ response.steps.templates.ok
    /\ \E r \in directory :
          /\ r.tenant_slug = response.tenant_slug
          /\ r.status = "PROVISIONING_FAILED"
          /\ r.database_name \notin DOMAIN pg_database

(***************************************************************************)
(* C27: in every reachable state, under every interleaving (two concurrent *)
(* create_tenant requests for one slug, each with a password of its own,   *)
(* included), a role "{slug}_user" that exists in the data store belongs   *)
(* to a slug with a directory record, and its password is the decryption   *)
(* of the password stored in that record.                                  *)
(***************************************************************************)
C27_RecordsOfRole(u) == {r \in directory : C24_DbUser(r.tenant_slug) = u}

C27_RolePasswordIsStoredPassword ==
    \A u \in DOMAIN pg_roles :
        /\ C27_RecordsOfRole(u) # {}
        /\ \A r \in C27_RecordsOfRole(u) :
              /\ decrypt_password(r).ok
              /\ decrypt_password(r).value = pg_roles[u]

\* one of two concurrent requests for the slug has lost the race for the
\* row, and the role of the slug exists
C27_Witness ==
    /\ LostRace
    /\ C24_DbUser(response.tenant_slug) \in DOMAIN pg_roles

(***************************************************************************)
(* C28: in every reachable state, every key of the connection registry is  *)
(* "{slug}_compliance_db" for a slug that has a record in the directory,   *)
(* and the entry's NAME, USER, PASSWORD, HOST and PORT are that record's   *)
(* database_name, database_user, decrypted password, database_host and     *)
(* database_port.                                                          *)
(***************************************************************************)
C28_EntryOf(r) ==
    [NAME |-> r.database_name, USER |-> r.database_user,
     PASSWORD |-> decrypt_password(r).value,
     HOST |-> r.database_host, PORT |-> r.database_port]

C28_RegistryMirrorsDirectory ==
    \A k \in DOMAIN connections :
        \E r \in directory :
            /\ k = C24_DbName(r.tenant_slug)
            /\ decrypt_password(r).ok
            /\ connections[k] = C28_EntryOf(r)

\* the registry holds the entry of a record that was soft-deleted after a
\* failed provisioning attempt had wired it
C28_Witness ==
    \E r \in directory :
        /\ ~r.is_active
        /\ C24_DbName(r.tenant_slug) \in DOMAIN connections
        /\ r.database_name \in DOMAIN pg_database
        /\ r.tenant_slug \notin migrated

====
